---- MODULE Spec2Model ----
(***************************************************************************)
(* Model of mi.py, the Streamlit form that relays contact details to the   *)
(* Brevo contact API.  One session of the script is modelled: every user   *)
(* interaction starts a run of the script from the top (check_password,    *)
(* then main), and every remote call of a run is one step, so that the     *)
(* remote directory may answer each call in every way it can.              *)
(***************************************************************************)
EXTENDS Integers, Sequences, FiniteSets, TLC

(***************************************************************************)
(* Bounds of the model.                                                    *)
(***************************************************************************)
MaxAttempts == 3
MaxRuns == 1
MaxLists == 101
MaxRun == 16
MaxPages == 5

(***************************************************************************)
(* Program constants.                                                      *)
(***************************************************************************)
limit == 50

\* code points of st.secrets["APP_PASSWORD"] and of the candidate secrets
APP_PASSWORD == <<115, 51>>
Candidates == {<<115, 51>>, <<103>>, <<115, 233>>}

VARIABLES
    password_correct,  \* st.session_state["password_correct"]: "absent", "True", "False"
    pc,                \* position of the current run of the script
    form,              \* widget values of the current run
    contacts,          \* the remote directory: contacts it holds
    disk,              \* files in the working directory of the process
    reqs,              \* remote requests issued by the current run, in order
    messages,          \* st.error / st.success / st.info shown by the current run
    all_lists,         \* get_contact_lists: all_lists
    offset,            \* get_contact_lists: offset
    pages,             \* pages received by the current get_contact_lists call
    statuses,          \* statuses of the answers to its requests (0: a transport error)
    lists_failed,      \* offset at which get_contact_lists failed, -1 if none
    remote_lists,      \* the remote directory: number of contact lists it holds
    email_found,       \* return of check_existing_contact at line 262
    phone_found,       \* return of check_existing_contact at line 266
    answers,           \* the calls of the submission path: what the directory held, its answer
    created,           \* return of create_contact at line 271
    contact_id,        \* return of get_contact_id at line 272
    result,            \* return of upload_file at line 280
    attempt,           \* the candidate secret of the last password attempt
    failures,          \* password attempts that did not unlock, while the box is shown
    runs,              \* runs of main started by a form interaction, so far
    requested,         \* a remote request was issued in this session
    created_emails,    \* emails of the contacts this session created
    phone_in,          \* is_valid_phone_number: the argument
    phone_ok,          \* is_valid_phone_number: the return value
    up_pc,             \* two sessions at lines 275-281: the position of each
    up_file,           \* their uploaded_file.name
    up_sent,           \* the bytes each sent to the remote service (0: none yet)
    up_result          \* the return of upload_file in each

vars == <<password_correct, pc, form, contacts, disk, reqs, messages, all_lists,
          offset, pages, statuses, lists_failed, remote_lists, email_found,
          phone_found, answers, created,
          contact_id, result, attempt, failures, runs, requested, created_emails,
          phone_in, phone_ok, up_pc, up_file, up_sent, up_result>>

(***************************************************************************)
(* Strings are sequences of characters.                                    *)
(***************************************************************************)
Digits == {"0", "1", "2", "3", "4", "5", "6", "7", "8", "9"}

StartsWith(s, p) == Len(s) >= Len(p) /\ SubSeq(s, 1, Len(p)) = p

AllDigits(s) == \A i \in 1..Len(s) : s[i] \in Digits

Rep(c, n) == [i \in 1..n |-> c]

\* the pattern with \d{3,15}
GeneralPattern_short(phone) ==
    \E pre \in {<<>>, <<"+">>, <<"0", "0">>}, suf \in {<<>>, <<"\n">>} :
        /\ Len(phone) >= Len(pre) + Len(suf)
        /\ SubSeq(phone, 1, Len(pre)) = pre
        /\ SubSeq(phone, Len(phone) - Len(suf) + 1, Len(phone)) = suf
        /\ LET body == SubSeq(phone, Len(pre) + 1, Len(phone) - Len(suf))
           IN  Len(body) >= 3 /\ Len(body) <= 15 /\ AllDigits(body)

\* re.match(r'^(?:\+|00)?\d{8,15}$', phone): '$' also matches before a final newline
GeneralPattern(phone) ==
    \E pre \in {<<>>, <<"+">>, <<"0", "0">>}, suf \in {<<>>, <<"\n">>} :
        /\ Len(phone) >= Len(pre) + Len(suf)
        /\ SubSeq(phone, 1, Len(pre)) = pre
        /\ SubSeq(phone, Len(phone) - Len(suf) + 1, Len(phone)) = suf
        /\ LET body == SubSeq(phone, Len(pre) + 1, Len(phone) - Len(suf))
           IN  Len(body) >= 8 /\ Len(body) <= 15 /\ AllDigits(body)

is_valid_phone_number(phone) ==
    \/ StartsWith(phone, <<"2", "7">>) /\ Len(phone) = 11
    \/ StartsWith(phone, <<"+", "2", "7">>) /\ Len(phone) = 12
    \/ StartsWith(phone, <<"0", "0", "2", "7">>) /\ Len(phone) = 13
    \/ GeneralPattern(phone)

(***************************************************************************)
(* hmac.compare_digest on two str: a TypeError when either holds a         *)
(* non-ASCII character, else their equality.                               *)
(***************************************************************************)
IsAscii(s) == \A i \in 1..Len(s) : s[i] < 128

compare_digest(a, b) ==
    IF IsAscii(a) /\ IsAscii(b) THEN (IF a = b THEN "True" ELSE "False") ELSE "TypeError"

\* password_entered: the value of st.session_state["password_correct"] it leaves
password_entered(old, password) ==
    CASE compare_digest(password, APP_PASSWORD) = "True" -> "True"
      [] compare_digest(password, APP_PASSWORD) = "False" -> "False"
      [] OTHER -> old

\* a gate that tests the presence of the flag instead of its value
check_password_present(flag) ==
    [ret |-> flag # "absent", shown |-> {}]

\* check_password: its return value and what it shows
check_password(flag) ==
    IF flag = "True"
    THEN [ret |-> TRUE, shown |-> {}]
    ELSE [ret |-> FALSE,
          shown |-> IF flag # "absent" THEN {"Password incorrect"} ELSE {}]

\* a password box that every run shows
PromptShown_always(flag) == TRUE

\* lines 35-39: the password box, with its on_change callback, exists only in a
\* run that did not return at line 36
PromptShown(flag) == flag # "True"

(***************************************************************************)
(* Answers of the remote service.  A call either raises a transport error  *)
(* (a requests.exceptions.RequestException that is no HTTPError) or gets a *)
(* response with a status and a body.                                      *)
(***************************************************************************)
Transport == [exc |-> TRUE, status |-> 0, body |-> "none"]

Http(status, body) == [exc |-> FALSE, status |-> status, body |-> body]

\* only server errors raised
RaisesForStatus_5xx(response) == response.status >= 500 /\ response.status < 600

\* response.raise_for_status() raises HTTPError for 4xx and 5xx
RaisesForStatus(response) == response.status >= 400 /\ response.status < 600

HasEmail(dir, email) == \E c \in dir : c.email = email

HasPhone(dir, phone) == \E c \in dir : c.phone = phone

\* GET /contacts/{identifier}: 200 only for a contact the directory holds
LookupAnswers(present) ==
    {Transport, Http(204, "none"), Http(500, "other")}
        \cup (IF present THEN {Http(200, "contact")} ELSE {Http(404, "other")})

\* An answer to POST /contacts: `json` tells whether the body is JSON, `message`
\* is the "message" of the JSON body ("" without one), `error` is the text of
\* the exception the call raises, and `kind` is why the directory refused.
CreateAnswer(exc, status, json, message, error, kind) ==
    [exc |-> exc, status |-> status, body |-> IF json THEN "json" ELSE "notjson",
     message |-> message, error |-> error, kind |-> kind]

\* POST /contacts: created only when neither identifier is taken
CreateAnswers(duplicate) ==
    {CreateAnswer(TRUE, 0, FALSE, "", "Read timed out", "transport"),
     CreateAnswer(FALSE, 400, TRUE, "Invalid phone number", "400 Client Error", "phone"),
     CreateAnswer(FALSE, 400, TRUE, "listIds is invalid", "400 Client Error", "validation"),
     CreateAnswer(FALSE, 400, TRUE, "", "400 Client Error", "validation"),
     CreateAnswer(FALSE, 500, FALSE, "", "500 Server Error", "validation")}
        \cup (IF duplicate
              THEN {CreateAnswer(FALSE, 400, TRUE, "Contact already exists",
                                 "400 Client Error", "duplicate"),
                    CreateAnswer(FALSE, 400, TRUE,
                                 "SMS is already associated with another Contact",
                                 "400 Client Error", "duplicate")}
              ELSE {CreateAnswer(FALSE, 201, TRUE, "", "", "none")})

\* POST /crm/files
UploadAnswers == {Transport, Http(201, "file"), Http(400, "other")}

\* "found" for every 2xx status
check_existing_contact_2xx(response) ==
    IF response.exc THEN FALSE ELSE response.status >= 200 /\ response.status < 300

\* "found" never reported
check_existing_contact_never(response) == FALSE

\* response.status_code == 200 at line 90; False on a RequestException (line 93)
check_existing_contact(response) ==
    IF response.exc THEN FALSE ELSE response.status = 200

\* str.lower() on the letters A-Z
UpperCase == "ABCDEFGHIJKLMNOPQRSTUVWXYZ"
LowerCase == "abcdefghijklmnopqrstuvwxyz"

LowerChar(c) ==
    IF \E i \in 1..26 : SubSeq(UpperCase, i, i) = c
    THEN LET i == CHOOSE i \in 1..26 : SubSeq(UpperCase, i, i) = c
         IN  SubSeq(LowerCase, i, i)
    ELSE c

RECURSIVE Lower(_)
Lower(s) ==
    IF Len(s) = 0 THEN "" ELSE LowerChar(SubSeq(s, 1, 1)) \o Lower(SubSeq(s, 2, Len(s)))

\* sub in s
Contains(s, sub) ==
    \E i \in 0..(Len(s) - Len(sub)) : SubSeq(s, i + 1, i + Len(sub)) = sub

\* create_contact: its return value and what it shows
create_contact(response) ==
    IF response.exc
    THEN [ret |-> FALSE, shown |-> {"Failed to add contact: " \o response.error}]
    ELSE IF ~RaisesForStatus(response)
    THEN [ret |-> TRUE, shown |-> {}]
    ELSE IF response.body = "notjson"
    THEN [ret |-> FALSE, shown |-> {"Failed to add contact: " \o response.error}]
    ELSE LET error_message == response.message
             lowered == Lower(error_message)
         IN  [ret |-> FALSE,
              shown |-> IF Contains(lowered, "already exists")
                        THEN {"A contact with this email or phone number already exists."}
                        ELSE IF Contains(lowered, "phone") \/ Contains(lowered, "sms")
                        THEN {"Invalid phone number format (remote)."}
                        ELSE {"Failed to add contact: " \o error_message}]

\* get_contact_id with an identifier made up on a failure
get_contact_id_default(response) ==
    IF response.exc \/ RaisesForStatus(response)
    THEN [ret |-> 7, shown |-> {"Failed to retrieve contact ID"}]
    ELSE [ret |-> IF response.body = "contact" THEN 7 ELSE 0, shown |-> {}]

\* get_contact_id with a failure it does not report
get_contact_id_silent(response) ==
    IF response.exc \/ RaisesForStatus(response)
    THEN [ret |-> 0, shown |-> {}]
    ELSE [ret |-> IF response.body = "contact" THEN 7 ELSE 0, shown |-> {}]

\* get_contact_id: the id of the response, None (0) on a failure
get_contact_id(response) ==
    IF response.exc \/ RaisesForStatus(response)
    THEN [ret |-> 0, shown |-> {"Failed to retrieve contact ID"}]
    ELSE [ret |-> IF response.body = "contact" THEN 7 ELSE 0, shown |-> {}]

\* upload_file without response.raise_for_status()
upload_file_unchecked(response) ==
    IF response.exc
    THEN [ret |-> "None", shown |-> {"File upload failed"}]
    ELSE [ret |-> "File uploaded successfully", shown |-> {}]

\* upload_file: the success text, None ("None") on a failure
upload_file(response) ==
    IF response.exc \/ RaisesForStatus(response)
    THEN [ret |-> "None", shown |-> {"File upload failed"}]
    ELSE [ret |-> "File uploaded successfully", shown |-> {}]

(***************************************************************************)
(* get_contact_lists.  The directory holds remote_lists lists, numbered by *)
(* id, and serves them in descending order (sort=desc), a page of at most  *)
(* `limit` lists from `offset` on.                                         *)
(***************************************************************************)
Min(a, b) == IF a < b THEN a ELSE b

\* a remote service that answers every offset with a full page
Endless == -1

Page(n, lim, off) ==
    IF n = Endless
    THEN [i \in 1..lim |-> off + i]
    ELSE [i \in 1..(IF n > off THEN Min(lim, n - off) ELSE 0) |-> n - off - i + 1]

\* GET /contacts/lists?limit=..&offset=..&sort=desc
ListsAnswers(n, lim, off) ==
    { [exc |-> TRUE, status |-> 0, json |-> FALSE, lists |-> <<>>],
      [exc |-> FALSE, status |-> 500, json |-> TRUE, lists |-> <<>>],
      [exc |-> FALSE, status |-> 404, json |-> TRUE, lists |-> <<>>],
      [exc |-> FALSE, status |-> 200, json |-> FALSE, lists |-> <<>>],
      [exc |-> FALSE, status |-> 200, json |-> TRUE, lists |-> Page(n, lim, off)] }

\* a remote request: the operation, the line of main that makes the call, and
\* the paging parameters sent
Req(op, line) == [op |-> op, line |-> line, offset |-> 0, limit |-> 0]

(***************************************************************************)
(* The form.                                                               *)
(***************************************************************************)
NoPhone == <<>>
ShortPhone == <<"1", "2", "3">>
PhoneA == <<"2", "7">> \o Rep("7", 9)
PhoneB == <<"+", "1">> \o Rep("4", 10)

EmptyForm ==
    [first_name |-> "", last_name |-> "", email |-> "", phone |-> NoPhone,
     uploaded_file |-> "None", button |-> FALSE]

Forms ==
    [first_name : {"", "Ann"}, last_name : {"", "Lee"},
     email : {"", "ann@x.io", "bob@x.io"},
     phone : {NoPhone, ShortPhone, PhoneA, PhoneB},
     uploaded_file : {"None", "cv.pdf"}, button : BOOLEAN]

\* any() in place of all() at line 252
all_required_any(f) ==
    f.first_name # "" \/ f.last_name # "" \/ f.email # "" \/ f.phone # NoPhone

\* line 252: all([first_name, last_name, email, phone])
all_required(f) ==
    f.first_name # "" /\ f.last_name # "" /\ f.email # "" /\ f.phone # NoPhone

(***************************************************************************)
(* The working directory of the process, which all sessions share: a file  *)
(* has a name and holds the bytes some session wrote.                      *)
(***************************************************************************)
\* lines 277-278: open(file_path, "wb") and f.write(...)
write_file(d, name, bytes) ==
    {f \in d : f.name # name} \cup {[name |-> name, bytes |-> bytes]}

\* line 281: os.remove(file_path)
remove_file(d, name) == {f \in d : f.name # name}

file_exists(d, name) == \E f \in d : f.name = name

read_file(d, name) == (CHOOSE f \in d : f.name = name).bytes

(***************************************************************************)
(* A run of the script starts with fresh locals and an empty page.         *)
(***************************************************************************)
FreshRun ==
    /\ reqs' = <<>>
    /\ all_lists' = <<>>
    /\ offset' = 0
    /\ pages' = <<>>
    /\ statuses' = <<>>
    /\ lists_failed' = -1
    /\ email_found' = "unset"
    /\ phone_found' = "unset"
    /\ answers' = <<>>
    /\ created' = "unset"
    /\ contact_id' = -1
    /\ result' = "unset"

\* The user types a candidate secret into the password box: the on_change
\* callback password_entered runs, then the script from the top (lines 22-46).
\* A TypeError raised by the callback ends the run with the exception shown
\* and st.session_state as it was.
PasswordAttempt(p) ==
    /\ pc = "idle"
    /\ PromptShown(password_correct)
    /\ failures < MaxAttempts
    /\ attempt' = p
    /\ password_correct' = password_entered(password_correct, p)
    /\ IF compare_digest(p, APP_PASSWORD) = "TypeError"
       THEN /\ messages' = {"TypeError"}
            /\ pc' = "idle"
       ELSE /\ messages' = check_password(password_correct').shown
            /\ pc' = IF check_password(password_correct').ret THEN "pre_email" ELSE "idle"
    /\ failures' = IF password_correct' = "True" THEN 0 ELSE failures + 1
    /\ FreshRun
    /\ UNCHANGED <<form, contacts, disk, remote_lists, runs, requested, created_emails,
                   phone_in, phone_ok, up_pc, up_file, up_sent, up_result>>

\* The user edits the form or presses the button: the script runs from the top.
Interact(f) ==
    /\ pc = "idle"
    /\ password_correct = "True"
    /\ runs < MaxRuns
    /\ runs' = runs + 1
    /\ form' = f
    /\ messages' = check_password(password_correct).shown
    /\ pc' = IF check_password(password_correct).ret THEN "pre_email" ELSE "idle"
    /\ FreshRun
    /\ UNCHANGED <<password_correct, contacts, disk, remote_lists, attempt, failures,
                   requested, created_emails, phone_in, phone_ok, up_pc, up_file,
                   up_sent, up_result>>

\* what a step of main leaves alone unless it says otherwise
Session == <<password_correct, form, attempt, failures, runs, remote_lists, phone_in, phone_ok,
             up_pc, up_file, up_sent, up_result>>

ListLocals == <<all_lists, offset, pages, statuses, lists_failed>>

\* lines 226-229
PreEmail ==
    /\ pc = "pre_email"
    /\ pc' = "pre_phone"
    /\ IF form.email # ""
       THEN \E response \in LookupAnswers(HasEmail(contacts, form.email)) :
                /\ reqs' = Append(reqs, Req("exists_email", 228))
                /\ requested' = TRUE
                /\ messages' = messages \cup
                       (IF check_existing_contact(response)
                        THEN {"sidebar: This email address is already associated"} ELSE {})
       ELSE UNCHANGED <<reqs, requested, messages>>
    /\ UNCHANGED <<Session, ListLocals, contacts, disk, email_found, phone_found, answers,
                   created, contact_id, result, created_emails>>

\* lines 231-236
PrePhone ==
    /\ pc = "pre_phone"
    /\ pc' = "lists"
    /\ IF form.phone # NoPhone /\ is_valid_phone_number(form.phone)
       THEN \E response \in LookupAnswers(HasPhone(contacts, form.phone)) :
                /\ reqs' = Append(reqs, Req("exists_phone", 235))
                /\ requested' = TRUE
                /\ messages' = messages \cup
                       (IF check_existing_contact(response)
                        THEN {"sidebar: This phone number is already associated"} ELSE {})
       ELSE /\ messages' = messages \cup
                (IF form.phone # NoPhone
                 THEN {"sidebar: Invalid phone number format"} ELSE {})
            /\ UNCHANGED <<reqs, requested>>
    /\ UNCHANGED <<Session, ListLocals, contacts, disk, email_found, phone_found, answers,
                   created, contact_id, result, created_emails>>

\* the offset left where it was
next_offset_same(off, lim) == off

\* the offset advanced by one instead of by the page size
next_offset_one(off, lim) == off + 1

\* line 129
next_offset(off, lim) == off + lim

\* line 126
extend(lists, chunk) == lists \o chunk

\* one turn of the loop of get_contact_lists (lines 106-129); line 131 when it breaks
GetListsPage ==
    /\ pc = "lists"
    /\ Len(statuses) < MaxPages
    /\ \E response \in ListsAnswers(remote_lists, limit, offset) :
        /\ reqs' = Append(reqs, [op |-> "lists", line |-> 239, offset |-> offset,
                                 limit |-> limit])
        /\ statuses' = Append(statuses, response.status)
        /\ requested' = TRUE
        /\ IF response.exc \/ RaisesForStatus(response)
           THEN /\ messages' = messages \cup {"Failed to retrieve contact lists"}
                /\ lists_failed' = offset
                /\ pc' = "select"
                /\ UNCHANGED <<all_lists, offset, pages>>
           ELSE IF ~response.json
           THEN /\ messages' = messages \cup {"Exception"}
                /\ pc' = "idle"
                /\ UNCHANGED <<all_lists, offset, pages, lists_failed>>
           ELSE /\ pages' = Append(pages, response.lists)
                /\ IF response.lists = <<>>
                   THEN /\ pc' = "select"
                        /\ UNCHANGED <<all_lists, offset>>
                   ELSE /\ all_lists' = extend(all_lists, response.lists)
                        /\ offset' = next_offset(offset, limit)
                        /\ pc' = "lists"
                /\ UNCHANGED <<messages, lists_failed>>
    /\ UNCHANGED <<Session, contacts, disk, email_found, phone_found, answers,
                   created, contact_id, result, created_emails>>

\* lines 239-259: get_contact_lists has returned and its other locals are gone;
\* the list selection, the button, the checks before any API call
Select ==
    /\ pc = "select"
    /\ IF all_lists = <<>> \/ ~form.button
       THEN /\ pc' = "idle"
            /\ UNCHANGED messages
       ELSE IF ~all_required(form)
       THEN /\ pc' = "idle"
            /\ messages' = messages \cup {"Please fill in all required fields"}
       ELSE IF ~is_valid_phone_number(form.phone)
       THEN /\ pc' = "idle"
            /\ messages' = messages \cup {"The phone number you entered is not in an accepted format"}
       ELSE /\ pc' = "sub_email"
            /\ UNCHANGED messages
    /\ offset' = 0 /\ pages' = <<>> /\ statuses' = <<>> /\ lists_failed' = -1
    /\ UNCHANGED <<Session, all_lists, contacts, disk, reqs, requested, email_found,
                   phone_found, answers, created, contact_id, result, created_emails>>

Str(b) == IF b THEN "True" ELSE "False"

\* a call of the submission path: the line of main that makes it, whether the
\* directory held what it asks about when it was made, and the answer
Call(line, present, response) == [line |-> line, present |-> present, response |-> response]

\* lines 261-264
SubEmail ==
    /\ pc = "sub_email"
    /\ \E response \in LookupAnswers(HasEmail(contacts, form.email)) :
        /\ reqs' = Append(reqs, Req("exists_email", 262))
        /\ answers' = Append(answers, Call(262, HasEmail(contacts, form.email), response))
        /\ email_found' = Str(check_existing_contact(response))
        /\ IF check_existing_contact(response)
           THEN /\ messages' = messages \cup {"This email address is already associated"}
                /\ pc' = "idle"
           ELSE /\ pc' = "sub_phone"
                /\ UNCHANGED messages
    /\ requested' = TRUE
    /\ UNCHANGED <<Session, ListLocals, contacts, disk, phone_found, created, contact_id,
                   result, created_emails>>

\* lines 266-268
SubPhone ==
    /\ pc = "sub_phone"
    /\ \E response \in LookupAnswers(HasPhone(contacts, form.phone)) :
        /\ reqs' = Append(reqs, Req("exists_phone", 266))
        /\ answers' = Append(answers, Call(266, HasPhone(contacts, form.phone), response))
        /\ phone_found' = Str(check_existing_contact(response))
        /\ IF check_existing_contact(response)
           THEN /\ messages' = messages \cup {"This phone number is already associated"}
                /\ pc' = "idle"
           ELSE /\ pc' = "create"
                /\ UNCHANGED messages
    /\ requested' = TRUE
    /\ UNCHANGED <<Session, ListLocals, contacts, disk, email_found, created, contact_id,
                   result, created_emails>>

\* the directory after it answered a create request
Directory(dir, f, response) ==
    IF ~response.exc /\ response.status = 201
    THEN dir \cup {[email |-> f.email, phone |-> f.phone]}
    ELSE dir

\* lines 270-271 and 297-298
Create ==
    /\ pc = "create"
    /\ \E response \in CreateAnswers(HasEmail(contacts, form.email)
                                       \/ HasPhone(contacts, form.phone)) :
        /\ reqs' = Append(reqs, Req("create", 271))
        /\ answers' = Append(answers, Call(271, HasEmail(contacts, form.email)
                                                  \/ HasPhone(contacts, form.phone), response))
        /\ contacts' = Directory(contacts, form, response)
        /\ LET success == create_contact(response)
           IN  /\ created' = Str(success.ret)
               /\ IF success.ret
                  THEN /\ pc' = "get_id"
                       /\ messages' = messages \cup success.shown
                       /\ created_emails' = created_emails \cup {form.email}
                  ELSE /\ pc' = "idle"
                       /\ messages' = messages \cup success.shown
                              \cup {"Failed to add contact. Please check your details"}
                       /\ UNCHANGED created_emails
    /\ requested' = TRUE
    /\ UNCHANGED <<Session, ListLocals, disk, email_found, phone_found, contact_id, result>>

\* lines 272-278 and 289-296
GetId ==
    /\ pc = "get_id"
    /\ \E response \in LookupAnswers(HasEmail(contacts, form.email)) :
        /\ reqs' = Append(reqs, Req("get_id", 272))
        /\ answers' = Append(answers, Call(272, HasEmail(contacts, form.email), response))
        /\ contact_id' = get_contact_id(response).ret
        /\ IF get_contact_id(response).ret # 0
           THEN IF form.uploaded_file # "None"
                THEN /\ disk' = write_file(disk, form.uploaded_file, 0)
                     /\ pc' = "upload"
                     /\ UNCHANGED messages
                ELSE /\ messages' = messages \cup {"Contact added without any PDF upload",
                                                   "To add another contact"}
                     /\ pc' = "idle"
                     /\ UNCHANGED disk
           ELSE /\ messages' = messages \cup get_contact_id(response).shown
                                   \cup {"Failed to retrieve contact ID after creation."}
                /\ pc' = "idle"
                /\ UNCHANGED disk
    /\ requested' = TRUE
    /\ UNCHANGED <<Session, ListLocals, contacts, email_found, phone_found, created,
                   result, created_emails>>

\* a failed upload sent again
upload_next_retry(ret) == IF ret = "None" THEN "upload" ELSE "idle"

\* lines 281-294: whatever upload_file returned, the run ends
upload_next(ret) == "idle"

\* lines 280-288 and 294
Upload ==
    /\ pc = "upload"
    /\ \E response \in UploadAnswers :
        /\ reqs' = Append(reqs, Req("upload", 280))
        /\ answers' = Append(answers, Call(280, FALSE, response))
        /\ pc' = upload_next(upload_file(response).ret)
        /\ result' = upload_file(response).ret
        /\ messages' = messages \cup upload_file(response).shown
               \cup (IF upload_file(response).ret # "None"
                     THEN {"Contact added and PDF uploaded successfully"}
                     ELSE {"Failed to upload the PDF file."})
               \cup {"To add another contact"}
    /\ disk' = remove_file(disk, form.uploaded_file)
    /\ requested' = TRUE
    /\ UNCHANGED <<Session, ListLocals, contacts, email_found, phone_found, created,
                   contact_id, created_emails>>

(***************************************************************************)
(* The session: the page was opened, the first run showed the password box.*)
(***************************************************************************)
Contact0 == [email |-> "ann@x.io", phone |-> PhoneA]

Blank ==
    /\ form = EmptyForm
    /\ disk = {}
    /\ reqs = <<>>
    /\ messages = {}
    /\ all_lists = <<>>
    /\ offset = 0
    /\ pages = <<>>
    /\ statuses = <<>>
    /\ lists_failed = -1
    /\ email_found = "unset"
    /\ phone_found = "unset"
    /\ answers = <<>>
    /\ created = "unset"
    /\ contact_id = -1
    /\ result = "unset"
    /\ attempt = <<>>
    /\ failures = 0
    /\ runs = 0
    /\ requested = FALSE
    /\ created_emails = {}

Sessions == {1, 2}

NoUploads ==
    /\ up_pc = [s \in Sessions |-> "none"]
    /\ up_file = [s \in Sessions |-> "None"]
    /\ up_sent = [s \in Sessions |-> 0]
    /\ up_result = [s \in Sessions |-> "unset"]

Init ==
    /\ Blank
    /\ NoUploads
    /\ password_correct = "absent"
    /\ pc = "idle"
    /\ contacts \in {{}, {Contact0}}
    /\ remote_lists \in {0, 1}
    /\ phone_in = <<>>
    /\ phone_ok = FALSE

Next ==
    \/ \E p \in Candidates : PasswordAttempt(p)
    \/ \E f \in Forms : Interact(f)
    \/ PreEmail
    \/ PrePhone
    \/ GetListsPage
    \/ Select
    \/ SubEmail
    \/ SubPhone
    \/ Create
    \/ GetId
    \/ Upload

Spec == Init /\ [][Next]_vars

(***************************************************************************)
(* get_contact_lists on its own, against directories of every size up to   *)
(* MaxLists: main has just called it (line 239) in an unlocked session.    *)
(***************************************************************************)
InitLists ==
    /\ Blank
    /\ NoUploads
    /\ password_correct = "True"
    /\ pc = "lists"
    /\ contacts = {}
    /\ remote_lists \in (0..MaxLists) \cup {Endless}
    /\ phone_in = <<>>
    /\ phone_ok = FALSE

NextLists == GetListsPage

SpecLists == InitLists /\ [][NextLists]_vars

(***************************************************************************)
(* is_valid_phone_number on its own, on strings of the shapes its rules    *)
(* tell apart.                                                             *)
(***************************************************************************)
DigitSample == {"0", "7"}

Prefixes == {<<>>, <<"2", "7">>, <<"+", "2", "7">>, <<"0", "0", "2", "7">>,
             <<"+">>, <<"0", "0">>, <<"+", "+">>}

Suffixes == {<<>>, <<"x">>, <<"\n">>}

PhoneInputs ==
    {pre \o body : pre \in {<<"2", "7">>, <<"+", "2", "7">>, <<"0", "0", "2", "7">>},
                   body \in [1..9 -> DigitSample]}
        \cup {pre \o Rep(c, n) \o suf : pre \in Prefixes, c \in {"7", "x"},
                                         n \in 0..MaxRun, suf \in Suffixes}
        \cup {NoPhone, ShortPhone, PhoneA, PhoneB,
              <<"+", "1", "4", "1", "5", "5", "5", "5", "2", "6", "7", "1">>}

InitPhone ==
    /\ Blank
    /\ NoUploads
    /\ password_correct = "True"
    /\ pc = "phone"
    /\ contacts = {}
    /\ remote_lists = 0
    /\ phone_in \in PhoneInputs
    /\ phone_ok = FALSE

\* a call of is_valid_phone_number(phone_in)
ValidatePhone ==
    /\ pc = "phone"
    /\ phone_ok' = is_valid_phone_number(phone_in)
    /\ pc' = "phone_done"
    /\ UNCHANGED <<password_correct, form, contacts, disk, reqs, messages, all_lists,
                   offset, pages, statuses, lists_failed, remote_lists, email_found, phone_found,
                   answers, created, contact_id, result, attempt, failures, runs,
                   requested, created_emails, phone_in, up_pc, up_file, up_sent, up_result>>

NextPhone == ValidatePhone

SpecPhone == InitPhone /\ [][NextPhone]_vars

(***************************************************************************)
(* Two sessions of the same process, each in a run that has created its    *)
(* contact, resolved the identifier and holds an uploaded file (line 275). *)
(* Streamlit runs the script of each session in a thread of its own; the   *)
(* threads interleave at the file operations and at the upload request.    *)
(* Session s uploads the bytes s.                                          *)
(***************************************************************************)
InitTwo ==
    /\ Blank
    /\ password_correct = "True"
    /\ pc = "two"
    /\ contacts = {}
    /\ remote_lists = 0
    /\ phone_in = <<>>
    /\ phone_ok = FALSE
    /\ up_pc = [s \in Sessions |-> "write"]
    /\ up_file \in [Sessions -> {"cv.pdf", "id.pdf"}]
    /\ up_sent = [s \in Sessions |-> 0]
    /\ up_result = [s \in Sessions |-> "unset"]

TwoRest ==
    <<password_correct, pc, form, contacts, reqs, messages, all_lists, offset, pages,
      statuses, lists_failed, remote_lists, email_found, phone_found, answers, created,
      contact_id, result, attempt, failures, runs, requested, created_emails, phone_in,
      phone_ok, up_file>>

\* lines 276-278: the file is written under the name of the uploaded file
TwoWrite(s) ==
    /\ up_pc[s] = "write"
    /\ disk' = write_file(disk, up_file[s], s)
    /\ up_pc' = [up_pc EXCEPT ![s] = "send"]
    /\ UNCHANGED <<TwoRest, up_sent, up_result>>

\* lines 199-202: upload_file opens the file and posts what it holds; a missing
\* file is a FileNotFoundError, which upload_file does not catch
TwoSend(s) ==
    /\ up_pc[s] = "send"
    /\ IF file_exists(disk, up_file[s])
       THEN /\ up_sent' = [up_sent EXCEPT ![s] = read_file(disk, up_file[s])]
            /\ up_pc' = [up_pc EXCEPT ![s] = "answer"]
       ELSE /\ up_pc' = [up_pc EXCEPT ![s] = "raised"]
            /\ UNCHANGED up_sent
    /\ UNCHANGED <<TwoRest, disk, up_result>>

\* lines 202-208: the remote service answers the upload
TwoAnswer(s) ==
    /\ up_pc[s] = "answer"
    /\ \E response \in UploadAnswers :
           up_result' = [up_result EXCEPT ![s] = upload_file(response).ret]
    /\ up_pc' = [up_pc EXCEPT ![s] = "remove"]
    /\ UNCHANGED <<TwoRest, disk, up_sent>>

\* line 281: os.remove(file_path); a missing file is a FileNotFoundError
TwoRemove(s) ==
    /\ up_pc[s] = "remove"
    /\ IF file_exists(disk, up_file[s])
       THEN /\ disk' = remove_file(disk, up_file[s])
            /\ up_pc' = [up_pc EXCEPT ![s] = "done"]
       ELSE /\ up_pc' = [up_pc EXCEPT ![s] = "raised"]
            /\ UNCHANGED disk
    /\ UNCHANGED <<TwoRest, up_sent, up_result>>

NextTwo ==
    \E s \in Sessions : TwoWrite(s) \/ TwoSend(s) \/ TwoAnswer(s) \/ TwoRemove(s)

SpecTwo == InitTwo /\ [][NextTwo]_vars

(***************************************************************************)
(* Properties.                                                             *)
(***************************************************************************)
Issued(op) == \E i \in DOMAIN reqs : reqs[i].op = op

Count(op) == Cardinality({i \in DOMAIN reqs : reqs[i].op = op})

CountAt(line) == Cardinality({i \in DOMAIN reqs : reqs[i].line = line})

\* the answer to a request was a failure: a transport error or an error status
Failure(status) == status = 0 \/ status >= 400

\* the run went into the branch of the button (line 250)
Submitted ==
    /\ form.button
    /\ all_lists # <<>>
    /\ "Exception" \notin messages
    /\ pc \notin {"pre_email", "pre_phone", "lists", "select"}

\* C1: a create request is issued only if the four required fields are
\* non-empty, is_valid_phone_number accepted the phone and both existence checks
\* of the submission returned "not found"; a submission with a missing field or
\* a rejected phone ends with an error and without a create request.
C1_CreateOnlyAfterChecks ==
    /\ Issued("create") =>
          /\ form.first_name # "" /\ form.last_name # ""
          /\ form.email # "" /\ form.phone # <<>>
          /\ is_valid_phone_number(form.phone)
          /\ email_found = "False" /\ phone_found = "False"
    /\ (Submitted /\ (form.first_name = "" \/ form.last_name = ""
                        \/ form.email = "" \/ form.phone = <<>>)) =>
          /\ pc = "idle"
          /\ "Please fill in all required fields" \in messages
          /\ ~Issued("create")
    /\ (Submitted /\ ~is_valid_phone_number(form.phone)) =>
          /\ pc = "idle"
          /\ \/ "Please fill in all required fields" \in messages
             \/ "The phone number you entered is not in an accepted format" \in messages
          /\ ~Issued("create")

C1_Witness == Issued("create") /\ created = "True" /\ form.phone = PhoneB

\* the upload of the run was answered with a failure
UploadFailed ==
    \E i \in DOMAIN answers :
        answers[i].line = 280 /\ (answers[i].response.exc \/ Failure(answers[i].response.status))

\* C2: when the contact was created and the upload failed, no request deletes
\* the contact: it is still in the directory, the run reports the failed upload,
\* and a lookup by that email is answered with the contact and its identifier.
C2_NoRollback ==
    /\ \A i \in DOMAIN reqs :
          reqs[i].op \in {"exists_email", "exists_phone", "lists", "create", "get_id", "upload"}
    /\ (created = "True" /\ UploadFailed) =>
          /\ pc = "idle"
          /\ result = "None"
          /\ "Failed to upload the PDF file." \in messages
          /\ "Contact added and PDF uploaded successfully" \notin messages
          /\ HasEmail(contacts, form.email)
    /\ \A e \in created_emails :
          /\ Http(200, "contact") \in LookupAnswers(HasEmail(contacts, e))
          /\ Http(404, "other") \notin LookupAnswers(HasEmail(contacts, e))
          /\ get_contact_id(Http(200, "contact")).ret # 0

C2_Witness ==
    /\ created = "True"
    /\ UploadFailed
    /\ pc = "idle"

\* C3: while the session is locked (password_correct is not True) the script
\* stops after check_password: no remote request has been issued.
C3_LockedNoRequest ==
    password_correct # "True" => (~requested /\ reqs = <<>> /\ pc = "idle")

C3_Witness == password_correct = "False" /\ failures = 2 /\ "Password incorrect" \in messages

\* C4: an attempt equal to the reference secret unlocks the session; every
\* mismatching attempt leaves it locked and is reported as incorrect.
C4_AttemptOutcome ==
    attempt # <<>> =>
        /\ attempt = APP_PASSWORD => password_correct = "True"
        /\ attempt # APP_PASSWORD =>
              /\ password_correct # "True"
              /\ "Password incorrect" \in messages

\* C5: check_existing_contact returns True only for an answer with status 200;
\* for every other status and for a transport error it returns False, nothing
\* is raised, and the submission goes on to its next call.
C5_FoundOnly200 ==
    \A i \in DOMAIN answers :
        LET a == answers[i]
            found == ~a.response.exc /\ a.response.status = 200
        IN  /\ a.line = 262 =>
                  /\ email_found = (IF found THEN "True" ELSE "False")
                  /\ ~found => /\ "This email address is already associated" \notin messages
                               /\ (pc = "sub_phone" \/ Len(answers) > i)
            /\ a.line = 266 =>
                  /\ phone_found = (IF found THEN "True" ELSE "False")
                  /\ ~found => /\ "This phone number is already associated" \notin messages
                               /\ (pc = "create" \/ Len(answers) > i)
            /\ "Exception" \notin messages

C5_Witness ==
    /\ Len(answers) >= 3
    /\ answers[1].response.exc
    /\ answers[2].response.status = 204
    /\ answers[3].line = 271

SubmissionOps == {"exists_email", "exists_phone", "create", "get_id", "upload"}

\* C6 as stated: each of the five calls is issued at most once in a run.
C6_OncePerRun == \A op \in SubmissionOps : Count(op) <= 1

\* C6: the submission path of a run (lines 250-298) issues each of its five
\* calls at most once; the form of the same run has issued its own email and
\* phone lookups (lines 228 and 235) at most once each before that, so a run
\* issues at most two email and two phone lookups and one of each other call.
C6_OncePerSubmission ==
    /\ \A line \in {228, 235, 262, 266, 271, 272, 280} : CountAt(line) <= 1
    /\ \A i \in DOMAIN reqs : reqs[i].op \in SubmissionOps => reqs[i].line # 239
    /\ Count("exists_email") <= 2 /\ Count("exists_phone") <= 2
    /\ Count("create") <= 1 /\ Count("get_id") <= 1 /\ Count("upload") <= 1
    /\ \A i, j \in DOMAIN reqs :
          (reqs[i].line \in {228, 235} /\ reqs[j].line >= 262) => i < j

C6_Witness ==
    /\ Count("exists_email") = 2 /\ Count("exists_phone") = 2
    /\ UploadFailed
    /\ pc = "idle"

RECURSIVE Flatten(_)
Flatten(ps) == IF ps = <<>> THEN <<>> ELSE Head(ps) \o Flatten(Tail(ps))

\* C7: get_contact_lists requests offsets 0, 50, 100, ... in turn with limit 50
\* and holds the concatenation, in request order, of the pages received, the
\* first empty page ending the call; pages of 50 lists at offsets 0 and 50 and
\* an empty page at offset 100 give those 100 lists in order.
C7_Pagination ==
    /\ \A i \in DOMAIN reqs :
          reqs[i].op = "lists" /\ reqs[i].offset = 50 * (i - 1) /\ reqs[i].limit = 50
    /\ all_lists = Flatten(pages)
    /\ \A i \in DOMAIN pages : pages[i] = <<>> => (i = Len(pages) /\ pc = "select")
    /\ (Len(pages) = 3 /\ Len(pages[1]) = 50 /\ Len(pages[2]) = 50 /\ pages[3] = <<>>) =>
          /\ pc = "select"
          /\ Len(reqs) = 3
          /\ Len(all_lists) = 100
          /\ \A i \in 1..50 : all_lists[i] = pages[1][i] /\ all_lists[50 + i] = pages[2][i]

C7_Witness ==
    /\ pc = "select"
    /\ Len(pages) = 3 /\ Len(pages[1]) = 50 /\ Len(pages[2]) = 50 /\ pages[3] = <<>>
    /\ all_lists = [i \in 1..100 |-> 101 - i]

\* C8: when the request for a page fails (transport error or error status),
\* get_contact_lists issues no further request, reports the error, and returns
\* the lists of the pages received before the failure, without raising.
C8_StopOnFailure ==
    \A i \in DOMAIN statuses :
        Failure(statuses[i]) =>
            /\ i = Len(statuses) /\ i = Len(reqs)
            /\ pc = "select"
            /\ "Failed to retrieve contact lists" \in messages
            /\ "Exception" \notin messages
            /\ lists_failed = reqs[i].offset
            /\ Len(pages) = i - 1
            /\ all_lists = Flatten(pages)

C8_Witness ==
    /\ pc = "select"
    /\ Len(statuses) = 2 /\ statuses[2] = 404
    /\ Len(all_lists) = 50

\* C9 as stated: a create request is issued only while the directory holds
\* neither the submitted email nor the submitted phone.
C9_UniqueBeforeCreate ==
    \A i \in DOMAIN answers : answers[i].line = 271 => ~answers[i].present

\* C9: a create request is issued only after both existence lookups of the
\* submission, and each of them either found the directory not holding the
\* identifier or failed (a transport error or a status other than 200 and 404,
\* which check_existing_contact takes for "not found").
C9_AbsentOrFailedLookup ==
    \A i \in DOMAIN answers :
        answers[i].line = 271 =>
            /\ i = 3 /\ answers[1].line = 262 /\ answers[2].line = 266
            /\ \A j \in 1..2 :
                  (~answers[j].response.exc /\ answers[j].response.status \in {200, 404})
                      => ~answers[j].present

C9_Witness ==
    /\ Len(answers) >= 3 /\ answers[3].line = 271
    /\ answers[1].response.status = 404 /\ answers[2].response.status = 404
    /\ contacts # {}

\* "27", "+27" or "0027" followed by 9 digits
SouthAfrican(s) ==
    \E pre \in {<<"2", "7">>, <<"+", "2", "7">>, <<"0", "0", "2", "7">>} :
        /\ Len(s) = Len(pre) + 9
        /\ \A i \in 1..Len(pre) : s[i] = pre[i]
        /\ \A i \in (Len(pre) + 1)..Len(s) : s[i] \in Digits

\* C10: is_valid_phone_number returns True for "27", "+27" or "0027" followed
\* by 9 digits, and False for the empty string and for "123".
C10_SouthAfricanAccepted ==
    pc = "phone_done" =>
        /\ SouthAfrican(phone_in) => phone_ok
        /\ phone_in \in {<<>>, <<"1", "2", "3">>} => ~phone_ok

C10_Witness ==
    /\ pc = "phone_done"
    /\ phone_in = <<"0", "0", "2", "7", "0", "7", "0", "7", "0", "7", "0", "7", "7">>
    /\ phone_ok

\* the whole of s is an optional "+" or "00" followed by 8 to 15 digits
WholeGeneral(s) ==
    \E pre \in {<<>>, <<"+">>, <<"0", "0">>} :
        /\ Len(s) >= Len(pre) + 8 /\ Len(s) <= Len(pre) + 15
        /\ \A i \in 1..Len(pre) : s[i] = pre[i]
        /\ \A i \in (Len(pre) + 1)..Len(s) : s[i] \in Digits

HasPrefix(s, pre) == Len(s) >= Len(pre) /\ \A i \in 1..Len(pre) : s[i] = pre[i]

\* C11: is_valid_phone_number(s) is True exactly when s starts with "27" and
\* has 11 characters, or with "+27" and has 12, or with "0027" and has 13, or
\* the whole of s, with no trailing character, is an optional "+" or "00"
\* followed by 8 to 15 digits; "+14155552671" is accepted.
C11_ExactlyTheRules ==
    pc = "phone_done" =>
        /\ phone_ok <=> \/ HasPrefix(phone_in, <<"2", "7">>) /\ Len(phone_in) = 11
                        \/ HasPrefix(phone_in, <<"+", "2", "7">>) /\ Len(phone_in) = 12
                        \/ HasPrefix(phone_in, <<"0", "0", "2", "7">>) /\ Len(phone_in) = 13
                        \/ WholeGeneral(phone_in)
        /\ phone_in = <<"+", "1", "4", "1", "5", "5", "5", "5", "2", "6", "7", "1">> => phone_ok

\* C12: every accepted string is digits only after an optional "+" or "00":
\* an unprefixed South African number is accepted only as 11 digits starting
\* with "27", a "+27" or "0027" number only with digits after the prefix.
C12_AcceptedAreDigits ==
    (pc = "phone_done" /\ phone_ok) =>
        \E pre \in {<<>>, <<"+">>, <<"0", "0">>} :
            /\ HasPrefix(phone_in, pre)
            /\ \A i \in (Len(pre) + 1)..Len(phone_in) : phone_in[i] \in Digits

\* the answers with which the directory refuses a create request
CreateFailures ==
    {r \in CreateAnswers(TRUE) \cup CreateAnswers(FALSE) : r.exc \/ RaisesForStatus(r)}

\* C13: the four failure kinds of create_contact (duplicate conflict, invalid
\* phone format, other remote validation error, transport failure) are shown
\* with different messages: the message shown for a refused create request is
\* shown for no refusal of another kind.
C13_DistinctMessages ==
    \A i \in DOMAIN answers :
        (answers[i].line = 271 /\ created = "False") =>
            \A r \in CreateFailures :
                r.kind # answers[i].response.kind => ~(create_contact(r).shown \subseteq messages)

\* the texts of main that tell the user the contact was added (lines 283-285
\* and 290-292: "Contact ... added to list ...")
SaysContactAdded(m) ==
    m \in {"Contact added and PDF uploaded successfully", "Contact added without any PDF upload"}

\* what main and the functions it calls show when a submission plainly fails
PlainFailureMessages ==
    {"Please fill in all required fields",
     "The phone number you entered is not in an accepted format",
     "This email address is already associated", "This phone number is already associated",
     "Failed to add contact. Please check your details",
     "Failed to retrieve contact ID", "Failed to retrieve contact ID after creation."}
        \cup UNION {create_contact(r).shown : r \in CreateFailures}

\* C14: when the contact was created and the upload failed, the run shows a
\* partial-success message: one that is neither the full-success message nor
\* a message of a plain failure, and that tells the user the contact was
\* created.
C14_PartialSuccessMessage ==
    (created = "True" /\ UploadFailed /\ pc = "idle") =>
        \E m \in messages :
            /\ m # "Contact added and PDF uploaded successfully"
            /\ m \notin PlainFailureMessages
            /\ SaysContactAdded(m)

\* C15: no mutable resource is shared across sessions: two sessions running
\* the submission concurrently do not affect each other's upload - each sends
\* the bytes of its own file and none fails on the temporary file.
C15_SessionsIsolated ==
    \A s \in Sessions :
        /\ up_sent[s] \in {0, s}
        /\ up_pc[s] # "raised"

\* the answer is a failure of the remote call
FailedAnswer(response) == response.exc \/ Failure(response.status)

\* the calls of the submission made at `line` that failed
FailedAt(line) ==
    {i \in DOMAIN answers : answers[i].line = line /\ FailedAnswer(answers[i].response)}

\* shown with st.error or st.sidebar.error
IsError(m) ==
    m \notin {"Contact added and PDF uploaded successfully",
              "Contact added without any PDF upload", "To add another contact", "Exception"}

\* C16 as stated: every failure of a remote call in any of the five remote
\* operations is caught and reported - the run ends normally with an error
\* message, no exception escapes and the session stays unlocked.
C16_EveryFailureReported ==
    ((\E line \in {262, 266, 271, 272, 280} : FailedAt(line) # {}) /\ pc = "idle") =>
        /\ \E m \in messages : IsError(m)
        /\ "Exception" \notin messages
        /\ password_correct = "True"

\* C16: every failure of a remote call is caught - no exception escapes and the
\* session stays unlocked.  A failed list request, creation, identifier lookup
\* or upload is reported with an error message and ends the listing or the run;
\* a failed existence lookup is not reported: it counts as "not found" and the
\* submission goes on.
C16_FailuresCaught ==
    /\ requested => password_correct = "True"
    /\ ((statuses # <<>> /\ Failure(statuses[Len(statuses)])) \/ answers # <<>>) =>
          "Exception" \notin messages
    /\ (statuses # <<>> /\ Failure(statuses[Len(statuses)])) =>
          /\ "Failed to retrieve contact lists" \in messages
          /\ pc = "select"
    /\ FailedAt(271) # {} =>
          /\ pc = "idle" /\ created = "False"
          /\ "Failed to add contact. Please check your details" \in messages
    /\ FailedAt(272) # {} =>
          /\ pc = "idle" /\ contact_id = 0
          /\ "Failed to retrieve contact ID" \in messages
          /\ "Failed to retrieve contact ID after creation." \in messages
    /\ FailedAt(280) # {} =>
          /\ pc = "idle" /\ result = "None"
          /\ "File upload failed" \in messages
          /\ "Failed to upload the PDF file." \in messages
    /\ FailedAt(262) # {} => email_found = "False" /\ (pc = "idle" => Len(answers) > 1)
    /\ FailedAt(266) # {} => phone_found = "False" /\ (pc = "idle" => Len(answers) > 2)

C16_Witness ==
    /\ FailedAt(262) # {} /\ FailedAt(272) # {}
    /\ pc = "idle" /\ password_correct = "True"

\* C17: once a session is unlocked it stays unlocked: after password_correct
\* became True no later run, callback or failed step of the workflow sets it
\* back to False or removes it, and the password prompt is not shown again.
C17_StaysUnlocked ==
    [][password_correct = "True" =>
          /\ password_correct' = "True"
          /\ ~PromptShown(password_correct')
          /\ "Password incorrect" \notin messages'
          /\ attempt' = attempt]_vars

C17_Witness ==
    /\ password_correct = "True"
    /\ runs >= 1
    /\ pc = "idle"
    /\ FailedAt(272) # {}

\* the directory answered the call with "found": a response of status 200
AnsweredFound(call) == ~call.response.exc /\ call.response.status = 200

\* C18: in the submission the duplicate checks are sequential and the first
\* match short-circuits: the email lookup is issued before the phone lookup;
\* when the email lookup reports "found" the submission fails with a message
\* naming the email, with no phone lookup and no create request; when only the
\* phone is found the message names the phone.
C18_ShortCircuit ==
    /\ answers # <<>> => answers[1].line = 262
    /\ \A i \in DOMAIN answers : (answers[i].line = 266 => i = 2) /\ (i = 2 => answers[i].line = 266)
    /\ (answers # <<>> /\ AnsweredFound(answers[1])) =>
          /\ Len(answers) = 1
          /\ pc = "idle"
          /\ "This email address is already associated" \in messages
          /\ "This phone number is already associated" \notin messages
    /\ (Len(answers) >= 2 /\ AnsweredFound(answers[2])) =>
          /\ Len(answers) = 2
          /\ ~AnsweredFound(answers[1])
          /\ pc = "idle"
          /\ "This phone number is already associated" \in messages
          /\ "This email address is already associated" \notin messages

C18_Witness ==
    /\ Len(answers) = 1 /\ AnsweredFound(answers[1]) /\ pc = "idle"
    /\ form.email = "ann@x.io" /\ form.phone = PhoneB

\* the calls of the submission made at `line`
CallsAt(line) == {i \in DOMAIN answers : answers[i].line = line}

\* C19: after a successful creation the identifier lookup is issued once; an
\* upload request is issued only if that lookup returned an identifier and an
\* attachment was supplied; with an identifier and no attachment the run ends
\* in success without any upload request; with no identifier resolved the run
\* ends in failure without any upload request.
C19_IdThenUpload ==
    /\ Cardinality(CallsAt(272)) <= 1
    /\ created # "True" => CallsAt(272) = {}
    /\ (created = "True" /\ pc # "get_id") => Cardinality(CallsAt(272)) = 1
    /\ (CallsAt(280) # {} \/ pc = "upload") =>
          /\ \E i \in CallsAt(272) : AnsweredFound(answers[i])
          /\ form.uploaded_file # "None"
    /\ \A i \in CallsAt(272) :
          /\ (AnsweredFound(answers[i]) /\ form.uploaded_file = "None") =>
                /\ pc = "idle"
                /\ CallsAt(280) = {}
                /\ "Contact added without any PDF upload" \in messages
                /\ \A m \in messages : m \notin PlainFailureMessages
          /\ ~AnsweredFound(answers[i]) =>
                /\ pc = "idle"
                /\ CallsAt(280) = {}
                /\ "Failed to retrieve contact ID after creation." \in messages
                /\ \A m \in messages : ~SaysContactAdded(m)

C19_Witness ==
    /\ created = "True" /\ pc = "idle"
    /\ \E i \in CallsAt(272) : ~AnsweredFound(answers[i])
    /\ form.uploaded_file # "None"
    /\ contact_id = 0

\* the least number of pages of `size` lists that hold n lists
Ceil(n, size) == (n + size - 1) \div size

\* the last request for a page failed
LastFailed == statuses # <<>> /\ Failure(statuses[Len(statuses)])

\* the last page received was empty
LastEmpty == pages # <<>> /\ Len(pages) = Len(statuses) /\ pages[Len(pages)] = <<>>

\* C20: get_contact_lists terminates for every directory that holds finitely
\* many lists and honours offset and limit: with n lists it returns after at
\* most ceil(n/50)+1 page requests; its loop ends only on an empty page or on a
\* failed request, and against a remote that answers every offset with a
\* non-empty page it goes on requesting.
C20_Terminates ==
    /\ remote_lists # Endless =>
          /\ Len(statuses) <= Ceil(remote_lists, limit) + 1
          /\ Len(statuses) < MaxPages
          /\ (Len(pages) = Ceil(remote_lists, limit) + 1) => pc = "select"
    /\ pc = "select" => (LastFailed \/ LastEmpty)
    /\ remote_lists = Endless =>
          /\ ~LastEmpty
          /\ pc = "select" => LastFailed
          /\ Len(pages) = Len(statuses) =>
                /\ pc = "lists"
                /\ offset = limit * Len(statuses)
                /\ Len(all_lists) = limit * Len(statuses)

C20_Witness ==
    /\ remote_lists = MaxLists /\ pc = "select"
    /\ Len(statuses) = Ceil(MaxLists, limit) + 1
    /\ LastEmpty

====
